---- MODULE Spec2Model ----
(***************************************************************************)
(* Model of the VS Code Extension Manager: the ExtensionTreeProvider       *)
(* collection (ExtensionTreeProvider.ts) and the command handlers of       *)
(* extension.ts that load a file into it and install the selected items.   *)
(*                                                                         *)
(* Item references are positions in the collection: the array object is    *)
(* replaced only by loadExtensions / addSettingsItem, every other method   *)
(* mutates the items in place.                                             *)
(*                                                                         *)
(* Specifications:                                                         *)
(*   SpecProvider  the provider class under any sequence of method calls   *)
(*   Spec          the handlers of extension.ts, one installSelected in    *)
(*                 progress at a time, everything else at any await        *)
(*   SpecSeq       the same handlers when the user acts only between two   *)
(*                 runs (and may cancel the one in progress)               *)
(*   SpecSeqShort  as SpecSeq, over shorter files                          *)
(*   SpecSeqFair   as SpecSeqShort, with the run's steps taken when they   *)
(*                 stay enabled                                            *)
(*   SpecSettings  one file loaded and installed, over every settings.json *)
(*                 and payload                                             *)
(*   SpecReentrant installSelected invoked again, and importExtensions     *)
(*                 invoked, while a run is suspended                       *)
(*   SpecToggle    the selection changed while a run is suspended          *)
(*   SpecCLI       getCLIPath over bin directories, host names, settings   *)
(*   SpecExport    exportExtensions, a run while its save dialog is open,  *)
(*                 and loadFile of the exported file                       *)
(***************************************************************************)
EXTENDS Integers, Sequences, FiniteSets, TLC

(* ------------------------------ bounds -------------------------------- *)
\* longest descriptor list a loaded file supplies
MaxLen == 2
\* longest descriptor list of a file loaded between runs
MaxLenSeq == 3
\* longest descriptor list the provider harness passes to loadExtensions
MaxLenProvider == 3
\* number of installSelected invocations the model keeps a record for
MaxRuns == 2
\* longest descriptor list of a file in the model of the settings merge
MaxLenSettings == 1
\* most properties of a settings object that a file of the model holds
MaxPairs == 2

(* ----------------------------- constants ------------------------------ *)
Pending == "pending"
Installing == "installing"
Success == "success"
Failed == "failed"
AlreadyInstalled == "alreadyInstalled"
ExtensionStatus == {Pending, Installing, Success, Failed, AlreadyInstalled}
TerminalStatus == {Success, Failed, AlreadyInstalled}

\* the reserved id of the synthetic settings item
SettingsId == "settings"
\* ids of real extensions
ExtIds == {"a", "b"}
\* ids a descriptor of a loaded file can carry
DescriptorIds == ExtIds \cup {SettingsId}

\* errorMessage of an item on which none was set (JS undefined)
NoErrorMessage == "undefined"
\* error.message of a failed cp.exec
ExecError == "Command failed"
\* e.message of a failed settings write
WriteError == "EACCES"

\* settingsData / data.settings that is undefined: no mapping
NoSettingsData == << >>
\* a settings object {k: v, ...} is the sequence of its properties in
\* insertion order, the order in which JSON.stringify writes them and
\* jsonc.parse reads them back; no key occurs twice
SomeSettings(m) == << m >>
SettingKeys == {"k1", "k2", "k3"}
SettingValues == {1, 2}
Property(k, v) == [key |-> k, value |-> v]
SettingProperties == {Property(k, v) : k \in SettingKeys, v \in SettingValues}
EmptyMap == << >>
KeysOf(m) == {m[i].key : i \in 1..Len(m)}
ValueOf(m, k) == m[CHOOSE i \in 1..Len(m) : m[i].key = k].value
\* a settings.json that exists and holds no JSON value (an empty text):
\* jsonc.parse gives undefined for it
BlankSettings == << EmptyMap, EmptyMap >>

(* ---------------------------- sequences ------------------------------- *)
SeqsUpTo(S, n) == UNION {[1..k -> S] : k \in 0..n}

SettingsMaps ==
    {m \in SeqsUpTo(SettingProperties, MaxPairs) : Cardinality(KeysOf(m)) = Len(m)}

RECURSIVE FilterRefs(_, _, _)
\* Array.prototype.filter over positions from..Len: the kept positions, ascending
FilterRefs(keep, from, len) ==
    IF from > len THEN << >>
    ELSE IF keep[from] THEN << from >> \o FilterRefs(keep, from + 1, len)
    ELSE FilterRefs(keep, from + 1, len)

\* Array.prototype.find: the first position whose flag is set, 0 when none
FindRef(flags) ==
    IF \E i \in DOMAIN flags : flags[i]
    THEN CHOOSE i \in DOMAIN flags : flags[i] /\ \A j \in 1..(i - 1) : ~flags[j]
    ELSE 0

(* ------------------------ ExtensionItem ------------------------------- *)
\* new ExtensionItem(extensionData, settingsData)
NewExtensionItem(id, settingsData) ==
    [id |-> id, selected |-> TRUE, status |-> Pending,
     errorMessage |-> NoErrorMessage, settingsData |-> settingsData]

(* --------------------- ExtensionTreeProvider -------------------------- *)
\* loadExtensions whose map stops one descriptor short
loadExtensions_DropsLast(extensionDataList) ==
    [i \in 1..(Len(extensionDataList) - 1) |->
        NewExtensionItem(extensionDataList[i], NoSettingsData)]

\* loadExtensions: the new array, one fresh item per descriptor
loadExtensions(extensionDataList) ==
    [i \in 1..Len(extensionDataList) |->
        NewExtensionItem(extensionDataList[i], NoSettingsData)]

\* addSettingsItem that forgets to remove the existing settings item
addSettingsItem_NoRemove(exts, settingsData) ==
    << NewExtensionItem(SettingsId, settingsData) >> \o exts

\* addSettingsItem: filter out id "settings", unshift a fresh settings item
addSettingsItem(exts, settingsData) ==
    LET keep == [i \in 1..Len(exts) |-> exts[i].id # SettingsId]
        refs == FilterRefs(keep, 1, Len(exts))
    IN  << NewExtensionItem(SettingsId, settingsData) >>
            \o [j \in 1..Len(refs) |-> exts[refs[j]]]

\* getSelectedExtensions whose filter skips the first item
getSelectedRefs_SkipsFirst(exts) ==
    FilterRefs([i \in 1..Len(exts) |-> exts[i].selected], 2, Len(exts))

\* getSelectedExtensions, as references to the items
getSelectedRefs(exts) ==
    FilterRefs([i \in 1..Len(exts) |-> exts[i].selected], 1, Len(exts))

\* getSelectedExtensions, as the items
getSelectedExtensions(exts) ==
    LET refs == getSelectedRefs(exts)
    IN  [j \in 1..Len(refs) |-> exts[refs[j]]]

selectAll(exts) == [i \in 1..Len(exts) |-> [exts[i] EXCEPT !.selected = TRUE]]

deselectAll(exts) == [i \in 1..Len(exts) |-> [exts[i] EXCEPT !.selected = FALSE]]

\* the item updateExtensionStatus finds: the first with that id, 0 when none
FindById(exts, id) == FindRef([i \in 1..Len(exts) |-> exts[i].id = id])

\* updateExtensionStatus that keeps the old errorMessage when none is passed
updateExtensionStatus_KeepsMessage(exts, id, status, errorMessage) ==
    LET ext == FindById(exts, id)
    IN  IF ext = 0 THEN exts
        ELSE IF errorMessage = NoErrorMessage THEN [exts EXCEPT ![ext].status = status]
        ELSE [exts EXCEPT ![ext].status = status, ![ext].errorMessage = errorMessage]

\* updateExtensionStatus that sets the status and drops the errorMessage
updateExtensionStatus_NoMessage(exts, id, status, errorMessage) ==
    LET ext == FindById(exts, id)
    IN  IF ext # 0 THEN [exts EXCEPT ![ext].status = status] ELSE exts

updateExtensionStatus(exts, id, status, errorMessage) ==
    LET ext == FindById(exts, id)
    IN  IF ext # 0
        THEN [exts EXCEPT ![ext].status = status,
                          ![ext].errorMessage = errorMessage]
        ELSE exts

handleCheckboxChange(exts, item, checked) ==
    [exts EXCEPT ![item].selected = checked]

\* what _onDidChangeTreeData fires: 0 is the payload-less refresh(), a
\* positive number the item passed as payload
RefreshFired == << 0 >>
\* updateExtensionStatus that notifies with the payload-less refresh()
updateExtensionStatusFired_FullRefresh(exts, id) ==
    IF FindById(exts, id) # 0 THEN RefreshFired ELSE << >>

updateExtensionStatusFired(exts, id) ==
    IF FindById(exts, id) # 0 THEN << FindById(exts, id) >> ELSE << >>

(* ------------------- settings file, loaded file ----------------------- *)
\* a merge in which the current settings win over the payload
MergeSettings_CurrentWins(currentSettings, settingsData) ==
    currentSettings
        \o SelectSeq(settingsData, LAMBDA e : e.key \notin KeysOf(currentSettings))

\* { ...currentSettings, ...settingsData }: the properties of the current
\* object in their order, with the payload's value where both have the key,
\* then the payload's other properties in their order
MergeSettings(currentSettings, settingsData) ==
    [i \in 1..Len(currentSettings) |->
        IF currentSettings[i].key \in KeysOf(settingsData)
        THEN Property(currentSettings[i].key,
                      ValueOf(settingsData, currentSettings[i].key))
        ELSE currentSettings[i]]
        \o SelectSeq(settingsData, LAMBDA e : e.key \notin KeysOf(currentSettings))

\* what the spread of currentSettings contributes in the settings phase:
\* nothing unless the file exists, readFileSync returns its content (a
\* throw is caught and logged) and jsonc.parse finds an object in it (the
\* spread of undefined adds no property)
ReadCurrentSettings(file, readable) ==
    IF file = NoSettingsData \/ ~readable \/ file = BlankSettings
    THEN EmptyMap ELSE file[1]

\* what a writeFileSync that throws leaves of settings.json: the file as
\* it was when the open failed (EACCES, ENOENT); once the open has
\* truncated the file (EFBIG, ENOSPC), a prefix of the new text, in which
\* jsonc.parse finds no value or an object with the first n properties
\* (a value of the model is one token, written whole or not at all)
FailedWriteLeaves(file, newSettings) ==
    {file, BlankSettings}
    \cup {SomeSettings(SubSeq(newSettings, 1, n)) : n \in 0..Len(newSettings)}

\* the value jsonc.parse returns for the loaded file:
\*   kind "array"     a bare list of descriptors (legacy shape)
\*   kind "object"    an object; ext is its extensions member ("absent",
\*                    "list" or "other" for a truthy value that is no array)
\*   kind "primitive" a number, string or boolean
\*   kind "null"      null, or undefined for content that has no value
ArrayData(list) ==
    [kind |-> "array", ext |-> "list", list |-> list, settings |-> NoSettingsData]
ObjectData(ext, list, settings) ==
    [kind |-> "object", ext |-> ext, list |-> list, settings |-> settings]
PrimitiveData ==
    [kind |-> "primitive", ext |-> "absent", list |-> << >>, settings |-> NoSettingsData]
NullData ==
    [kind |-> "null", ext |-> "absent", list |-> << >>, settings |-> NoSettingsData]

\* does reading a member of data throw a TypeError
ThrowsOnMember(data) == data.kind = "null"

\* ExtensionsOf that accepts only the bare list of the legacy shape
ExtensionsOf_LegacyOnly(data) ==
    IF data.kind = "array" THEN [isArray |-> TRUE, list |-> data.list]
    ELSE [isArray |-> TRUE, list |-> << >>]

\* Array.isArray(data) ? data : data.extensions || []
ExtensionsOf(data) ==
    IF data.kind = "array" THEN [isArray |-> TRUE, list |-> data.list]
    ELSE IF data.ext = "list" THEN [isArray |-> TRUE, list |-> data.list]
    ELSE IF data.ext = "other" THEN [isArray |-> FALSE, list |-> << >>]
    ELSE [isArray |-> TRUE, list |-> << >>]

\* the try block of loadFile: the collection it leaves behind
LoadFileResult(exts, data) ==
    IF ThrowsOnMember(data) THEN exts
    ELSE IF ~ExtensionsOf(data).isArray THEN exts
    ELSE IF data.settings # NoSettingsData
         THEN addSettingsItem(loadExtensions(ExtensionsOf(data).list), data.settings)
         ELSE loadExtensions(ExtensionsOf(data).list)

\* does the try block of loadFile end in the catch
LoadFileThrows(data) == ThrowsOnMember(data) \/ ~ExtensionsOf(data).isArray

(* ---------------------- installSelected runs -------------------------- *)
Runs == 1..MaxRuns

\* the summary before showInformationMessage was called
NoSummary == [shown |-> FALSE, installed |-> 0, settingsApplied |-> "No"]

\* an installSelected invocation that is not in progress
IdleRun ==
    [pc |-> "idle",
     settingsItem |-> 0,        \* selected.find(id === "settings"), 0 = undefined
     extensionItems |-> << >>,  \* selected.filter(id !== "settings"): ref and id
     i |-> 0,                   \* loop index
     installedCount |-> 0,
     errorCount |-> 0,
     cancelled |-> FALSE,       \* token.isCancellationRequested
     settingsIncrement |-> 0,   \* progress reported by the settings phase
     itemReports |-> 0,         \* number of per-item progress reports
     currentSettings |-> EmptyMap,  \* the settings phase's local currentSettings
     newSettings |-> EmptyMap,      \* the settings phase's local newSettings
     settingsOutcome |-> "none",    \* "written" / "failed" once the phase ran
     readFailed |-> FALSE,          \* readFileSync of settings.json threw
     outcome |-> << >>,         \* per item: "none", then what the host or the
                                \* CLI answered: "already", "started", "ok", "fail"
     fresh |-> FALSE,           \* every item was Pending when the run started
     stale |-> FALSE,           \* the collection was replaced since the snapshot
     summary |-> NoSummary]

\* an importExtensions invocation that is not in progress
IdleImport ==
    [pc |-> "idle",
     extensions |-> << >>,           \* ids of the descriptors of the picked file
     extensionsToInstall |-> << >>,  \* those the host does not have
     i |-> 0,                        \* loop index
     installedCount |-> 0,
     errorCount |-> 0,
     cancelled |-> FALSE,            \* token.isCancellationRequested
     reports |-> 0,                  \* number of progress reports
     message |-> "none"]             \* the message the handler ended with

\* the loop of importExtensions from its head to the next await of cp.exec,
\* or past the loop to the final information message
ImportLoop(imp) ==
    IF imp.i >= Len(imp.extensionsToInstall) \/ imp.cancelled
    THEN [imp EXCEPT !.pc = "done", !.message = "complete"]
    ELSE [imp EXCEPT !.pc = "awaiting", !.reports = imp.reports + 1]

\* extensionItems read from the whole collection, whatever is selected
ExtensionItemsOf_IgnoresSelection(exts) ==
    LET refs == FilterRefs([i \in 1..Len(exts) |-> exts[i].id # SettingsId],
                           1, Len(exts))
    IN  [j \in 1..Len(refs) |-> [ref |-> refs[j], id |-> exts[refs[j]].id]]

\* extensionItems that keeps the settings item among the extensions
ExtensionItemsOf_KeepsSettings(exts) ==
    LET sel == getSelectedRefs(exts)
    IN  [j \in 1..Len(sel) |-> [ref |-> sel[j], id |-> exts[sel[j]].id]]

\* selected.filter((item) => item.id !== "settings"), each with its id
ExtensionItemsOf(exts) ==
    LET sel == getSelectedRefs(exts)
        refs == FilterRefs([j \in 1..Len(sel) |-> exts[sel[j]].id # SettingsId],
                           1, Len(sel))
    IN  [j \in 1..Len(refs) |-> [ref |-> sel[refs[j]], id |-> exts[sel[refs[j]]].id]]

\* selected.find((item) => item.id === "settings")
SettingsItemOf(exts) ==
    LET sel == getSelectedRefs(exts)
        hit == FindRef([j \in 1..Len(sel) |-> exts[sel[j]].id = SettingsId])
    IN  IF hit = 0 THEN 0 ELSE sel[hit]

\* the text of the final information message
SummaryOf(run) ==
    [shown |-> TRUE, installed |-> run.installedCount,
     settingsApplied |-> IF run.settingsItem # 0 THEN "Yes" ELSE "No"]

VARIABLES
    extensions,     \* ExtensionTreeProvider.extensions
    runs,           \* the installSelected invocations
    hostInstalled,  \* ids vscode.extensions.getExtension finds
    settingsFile,   \* the user's settings.json: NoSettingsData when missing
    lastCall,       \* the provider method the harness called last
    importRun       \* the importExtensions invocation

vars == << extensions, runs, hostInstalled, settingsFile, lastCall, importRun >>
progVars == << runs, hostInstalled, settingsFile, importRun >>

\* lenBefore is getExtensions().length as the harness read it before the call
NoCall == [op |-> "none", arg |-> << >>, fired |-> << >>, lenBefore |-> 0]

(* --------- the provider under arbitrary sequences of calls ------------ *)
\* what the harness passes: descriptor ids, settings payloads and the
\* (status, errorMessage) pairs updateExtensionStatus is called with
ProviderIds == {"a", SettingsId}
ProviderPayloads == {<< Property("k1", 1) >>, << Property("k1", 2) >>}
StatusUpdates ==
    {<< s, NoErrorMessage >> : s \in ExtensionStatus} \cup {<< Failed, ExecError >>}

InitProvider ==
    /\ importRun = IdleImport
    /\ extensions = << >>
    /\ lastCall = NoCall
    /\ runs = [r \in Runs |-> IdleRun]
    /\ hostInstalled = {}
    /\ settingsFile = NoSettingsData

PLoadExtensions ==
    \E list \in SeqsUpTo(ProviderIds, MaxLenProvider) :
        /\ extensions' = loadExtensions(list)
        /\ lastCall' = [op |-> "loadExtensions", arg |-> list, fired |-> RefreshFired,
                        lenBefore |-> Len(extensions)]

PAddSettingsItem ==
    \E m \in ProviderPayloads :
        /\ extensions' = addSettingsItem(extensions, SomeSettings(m))
        /\ lastCall' = [op |-> "addSettingsItem", arg |-> << m >>, fired |-> RefreshFired,
                        lenBefore |-> Len(extensions)]

PSelectAll ==
    /\ extensions' = selectAll(extensions)
    /\ lastCall' = [op |-> "selectAll", arg |-> << >>, fired |-> RefreshFired,
                        lenBefore |-> Len(extensions)]

PDeselectAll ==
    /\ extensions' = deselectAll(extensions)
    /\ lastCall' = [op |-> "deselectAll", arg |-> << >>, fired |-> RefreshFired,
                        lenBefore |-> Len(extensions)]

PUpdateExtensionStatus ==
    \E id \in ProviderIds, u \in StatusUpdates :
        /\ extensions' = updateExtensionStatus(extensions, id, u[1], u[2])
        /\ lastCall' = [op |-> "updateExtensionStatus", arg |-> << id, u[1], u[2] >>,
                        fired |-> updateExtensionStatusFired(extensions, id),
                        lenBefore |-> Len(extensions)]

PHandleCheckboxChange ==
    \E item \in 1..Len(extensions), checked \in BOOLEAN :
        /\ extensions' = handleCheckboxChange(extensions, item, checked)
        /\ lastCall' = [op |-> "handleCheckboxChange", arg |-> << item, checked >>,
                        fired |-> << >>, lenBefore |-> Len(extensions)]

NextProvider ==
    \/ PLoadExtensions /\ UNCHANGED progVars
    \/ PAddSettingsItem /\ UNCHANGED progVars
    \/ PSelectAll /\ UNCHANGED progVars
    \/ PDeselectAll /\ UNCHANGED progVars
    \/ PUpdateExtensionStatus /\ UNCHANGED progVars
    \/ PHandleCheckboxChange /\ UNCHANGED progVars

SpecProvider == InitProvider /\ [][NextProvider]_vars

(* ======================= properties of the provider =================== *)
\* the number of kept positions among the first i
Rank(keep, i) == Cardinality({j \in 1..i : keep[j]})

\* sub holds exactly the items of seq whose flag is set, in the order of seq
IsSubsequenceOf(sub, seq, keep) ==
    /\ Len(sub) = Rank(keep, Len(seq))
    /\ \A i \in 1..Len(seq) : keep[i] => sub[Rank(keep, i)] = seq[i]

\* C1: after loadExtensions(list), whatever the collection held before, it
\* has exactly Len(list) items, the i-th carries the i-th descriptor's id,
\* and every item is selected and Pending (with no errorMessage).
C1_LoadExtensions ==
    lastCall.op = "loadExtensions" =>
        /\ Len(extensions) = Len(lastCall.arg)
        /\ \A i \in 1..Len(lastCall.arg) :
              /\ extensions[i].id = lastCall.arg[i]
              /\ extensions[i].selected
              /\ extensions[i].status = Pending
              /\ extensions[i].errorMessage = NoErrorMessage

\* a list of the full length replaced a collection of another length
C1_Witness ==
    /\ lastCall.op = "loadExtensions"
    /\ Len(lastCall.arg) = MaxLenProvider
    /\ lastCall.arg[1] # lastCall.arg[2]
    /\ lastCall.lenBefore > MaxLenProvider

\* C2: every addSettingsItem(p), also one that follows an earlier
\* addSettingsItem and any toggles and status updates, leaves exactly one
\* item with id "settings", at the head, holding p, selected and Pending;
\* the items behind it are the former non-settings items in their order.
C2_AddSettingsItem ==
    [][lastCall'.op = "addSettingsItem" =>
        /\ Len(extensions') >= 1
        /\ extensions'[1] = [id |-> SettingsId, selected |-> TRUE, status |-> Pending,
                             errorMessage |-> NoErrorMessage,
                             settingsData |-> SomeSettings(lastCall'.arg[1])]
        /\ Cardinality({i \in 1..Len(extensions') : extensions'[i].id = SettingsId}) = 1
        /\ IsSubsequenceOf(Tail(extensions'), extensions,
                           [i \in 1..Len(extensions) |-> extensions[i].id # SettingsId])
      ]_vars

\* a second addSettingsItem replaced the settings item of a collection whose
\* other items had been deselected and updated in between
C2_Witness ==
    /\ lastCall.op = "addSettingsItem"
    /\ lastCall.arg[1] = << Property("k1", 2) >>
    /\ lastCall.lenBefore = Len(extensions)
    /\ Len(extensions) >= 3
    /\ ~extensions[2].selected /\ extensions[2].status = Failed
    /\ extensions[3].selected /\ extensions[3].status = Pending

\* C4: getSelectedExtensions is empty right after deselectAll, is the whole
\* collection in order right after selectAll, and is always exactly the
\* selected items in collection order.
C4_Selected ==
    /\ lastCall.op = "deselectAll" => getSelectedExtensions(extensions) = << >>
    /\ lastCall.op = "selectAll" => getSelectedExtensions(extensions) = extensions
    /\ IsSubsequenceOf(getSelectedExtensions(extensions), extensions,
                       [i \in 1..Len(extensions) |-> extensions[i].selected])
    /\ \A j \in 1..Len(getSelectedExtensions(extensions)) :
          getSelectedExtensions(extensions)[j].selected

\* selectAll acted on a collection of distinguishable items
C4_Witness ==
    /\ lastCall.op = "selectAll"
    /\ Len(extensions) >= 3
    /\ extensions[1].status # extensions[2].status
    /\ extensions[2].id # extensions[3].id


(* ------------------- the extension's command handlers ----------------- *)
\* a run is between two awaits: nothing else executes until it suspends.
\* withProgress calls its task at once, so the only await of a run that lets
\* other handlers in is the one on installExtension; the steps in between
\* are separate actions only to keep every updateExtensionStatus visible.
SyncPcs == {"settings", "loop", "summary"}
SyncActive == \E r \in Runs : runs[r].pc \in SyncPcs

\* the settings the loaded files and the settings.json of this model hold
CoreSettings == {NoSettingsData, SomeSettings(<< Property("k1", 1) >>)}
CoreFiles == {NoSettingsData}

\* the parsed files of a given longest list and settings choice
FileData(ids, maxLen, settings) ==
    {ArrayData(l) : l \in SeqsUpTo(ids, maxLen)}
    \cup {ObjectData("list", l, st) : l \in SeqsUpTo(ids, maxLen), st \in settings}
    \cup {ObjectData("absent", << >>, st) : st \in settings}
    \cup {ObjectData("other", << >>, st) : st \in settings}
    \cup {PrimitiveData, NullData}

InitWith(files, hostIds) ==
    /\ importRun = IdleImport
    /\ extensions = << >>
    /\ lastCall = NoCall
    /\ runs = [r \in Runs |-> IdleRun]
    /\ hostInstalled \in SUBSET hostIds
    /\ settingsFile \in files

\* loadFile with a file picked; a replaced collection detaches the items
\* the suspended runs hold
LoadFile(data) ==
    /\ ~SyncActive
    /\ extensions' = LoadFileResult(extensions, data)
    /\ runs' = [r \in Runs |->
                  IF runs[r].pc = "awaiting" /\ ~LoadFileThrows(data)
                  THEN [runs[r] EXCEPT !.stale = TRUE] ELSE runs[r]]
    /\ UNCHANGED << hostInstalled, settingsFile, lastCall, importRun >>

SelectAllCommand ==
    /\ ~SyncActive
    /\ extensions' = selectAll(extensions)
    /\ UNCHANGED << runs, hostInstalled, settingsFile, lastCall, importRun >>

DeselectAllCommand ==
    /\ ~SyncActive
    /\ extensions' = deselectAll(extensions)
    /\ UNCHANGED << runs, hostInstalled, settingsFile, lastCall, importRun >>

\* treeView.onDidChangeCheckboxState for one item
CheckboxChanged(item, checked) ==
    /\ ~SyncActive
    /\ extensions' = handleCheckboxChange(extensions, item, checked)
    /\ UNCHANGED << runs, hostInstalled, settingsFile, lastCall, importRun >>

\* the user installs or removes an extension in the host
HostChanges(id) ==
    /\ ~SyncActive
    /\ hostInstalled' = IF id \in hostInstalled THEN hostInstalled \ {id}
                        ELSE hostInstalled \cup {id}
    /\ UNCHANGED << extensions, runs, settingsFile, lastCall, importRun >>

\* installSelected up to withProgress: the selection snapshot
RunStart(r) ==
    /\ ~SyncActive
    /\ runs[r].pc = "idle"
    /\ \A q \in 1..(r - 1) : runs[q].pc # "idle"
    /\ Len(getSelectedRefs(extensions)) # 0
    /\ runs' = [runs EXCEPT ![r] =
            [IdleRun EXCEPT !.pc = "settings",
                            !.settingsItem = SettingsItemOf(extensions),
                            !.extensionItems = ExtensionItemsOf(extensions),
                            !.outcome = [j \in 1..Len(ExtensionItemsOf(extensions)) |-> "none"],
                            !.fresh = \A p \in 1..Len(extensions) :
                                          extensions[p].status = Pending]]
    /\ UNCHANGED << extensions, hostInstalled, settingsFile, lastCall, importRun >>

\* "1. Install Settings if selected"
SettingsPhase(r) ==
    /\ runs[r].pc = "settings"
    /\ LET item == runs[r].settingsItem
           runs_settings == item # 0 /\ extensions[item].settingsData # NoSettingsData
       IN  IF runs_settings
           THEN \E written \in BOOLEAN, readable \in BOOLEAN :
                    LET currentSettings == ReadCurrentSettings(settingsFile, readable)
                        newSettings == MergeSettings(currentSettings,
                                                     extensions[item].settingsData[1])
                    IN  /\ IF written
                           THEN settingsFile' = SomeSettings(newSettings)
                           ELSE settingsFile' \in FailedWriteLeaves(settingsFile,
                                                                    newSettings)
                        /\ extensions' =
                              IF written
                              THEN updateExtensionStatus(extensions, SettingsId,
                                                         Success, NoErrorMessage)
                              ELSE updateExtensionStatus(extensions, SettingsId,
                                                         Failed, WriteError)
                        /\ runs' = [runs EXCEPT
                              ![r].pc = "loop",
                              ![r].settingsIncrement = 10,
                              ![r].currentSettings = currentSettings,
                              ![r].newSettings = newSettings,
                              ![r].readFailed = (settingsFile # NoSettingsData /\ ~readable),
                              ![r].settingsOutcome = IF written THEN "written" ELSE "failed"]
           ELSE /\ runs' = [runs EXCEPT ![r].pc = "loop"]
                /\ UNCHANGED << extensions, settingsFile >>
    /\ UNCHANGED << hostInstalled, lastCall, importRun >>

\* one pass through the head of the for loop, up to continue, break or await
LoopStep(r) ==
    /\ runs[r].pc = "loop"
    /\ LET run == runs[r]
           total == Len(run.extensionItems)
       IN  IF run.i >= total \/ run.cancelled
           THEN /\ runs' = [runs EXCEPT ![r].pc = "summary", ![r].summary = SummaryOf(run)]
                /\ UNCHANGED extensions
           ELSE LET extensionId == run.extensionItems[run.i + 1].id
                IN  IF extensionId \in hostInstalled
                    THEN /\ extensions' = updateExtensionStatus(extensions, extensionId,
                                                                AlreadyInstalled, NoErrorMessage)
                         /\ runs' = [runs EXCEPT ![r].i = run.i + 1,
                                                 ![r].outcome[run.i + 1] = "already"]
                    ELSE /\ extensions' = updateExtensionStatus(extensions, extensionId,
                                                                Installing, NoErrorMessage)
                         /\ runs' = [runs EXCEPT ![r].pc = "awaiting",
                                                 ![r].itemReports = run.itemReports + 1,
                                                 ![r].outcome[run.i + 1] = "started"]
    /\ UNCHANGED << hostInstalled, settingsFile, lastCall, importRun >>

\* the callback of cp.exec resolves the promise the loop awaits
InstallReturns(r, success) ==
    /\ ~SyncActive
    /\ runs[r].pc = "awaiting"
    /\ LET run == runs[r]
           extensionId == run.extensionItems[run.i + 1].id
       IN  IF success
           THEN /\ extensions' = updateExtensionStatus(extensions, extensionId,
                                                       Success, NoErrorMessage)
                /\ runs' = [runs EXCEPT ![r].pc = "loop", ![r].i = run.i + 1,
                                        ![r].installedCount = run.installedCount + 1,
                                        ![r].outcome[run.i + 1] = "ok"]
           ELSE /\ extensions' = updateExtensionStatus(extensions, extensionId,
                                                       Failed, ExecError)
                /\ runs' = [runs EXCEPT ![r].pc = "loop", ![r].i = run.i + 1,
                                        ![r].errorCount = run.errorCount + 1,
                                        ![r].outcome[run.i + 1] = "fail"]
    /\ UNCHANGED << hostInstalled, settingsFile, lastCall, importRun >>

\* the user presses Cancel on the progress notification
Cancel(r) ==
    /\ ~SyncActive
    /\ runs[r].pc = "awaiting"
    /\ ~runs[r].cancelled
    /\ runs' = [runs EXCEPT ![r].cancelled = TRUE]
    /\ UNCHANGED << extensions, hostInstalled, settingsFile, lastCall, importRun >>

\* the handler returns after the information message
RunReturns(r) ==
    /\ runs[r].pc = "summary"
    /\ runs' = [runs EXCEPT ![r] = IdleRun]
    /\ UNCHANGED << extensions, hostInstalled, settingsFile, lastCall, importRun >>

(* --------------------------- importExtensions ------------------------- *)
\* importExtensions up to its await of the open dialog
ImportCommand ==
    /\ ~SyncActive
    /\ importRun.pc \in {"idle", "done"}
    /\ importRun' = [IdleImport EXCEPT !.pc = "picking"]
    /\ UNCHANGED << extensions, runs, hostInstalled, settingsFile, lastCall >>

\* the open dialog is dismissed: the handler returns
ImportDismissed ==
    /\ ~SyncActive
    /\ importRun.pc = "picking"
    /\ importRun' = IdleImport
    /\ UNCHANGED << extensions, runs, hostInstalled, settingsFile, lastCall >>

\* the open dialog returns a file: it is read and parsed as loadFile does,
\* and the quick pick is shown; a throw ends in the handler's catch
ImportFilePicked(data) ==
    /\ ~SyncActive
    /\ importRun.pc = "picking"
    /\ importRun' =
          IF LoadFileThrows(data)
          THEN [importRun EXCEPT !.pc = "done", !.message = "error"]
          ELSE [importRun EXCEPT !.pc = "confirming",
                                 !.extensions = ExtensionsOf(data).list]
    /\ UNCHANGED << extensions, runs, hostInstalled, settingsFile, lastCall >>

\* the quick pick returns: with "Yes" the extensions the host does not have
\* are installed one after the other, up to the await of the first cp.exec
ImportConfirmed(yes) ==
    /\ ~SyncActive
    /\ importRun.pc = "confirming"
    /\ LET extensionsToInstall ==
              SelectSeq(importRun.extensions, LAMBDA id : id \notin hostInstalled)
       IN  importRun' =
              IF ~yes THEN IdleImport
              ELSE IF Len(extensionsToInstall) = 0
              THEN [importRun EXCEPT !.pc = "done", !.message = "allInstalled"]
              ELSE ImportLoop([importRun EXCEPT
                                  !.extensionsToInstall = extensionsToInstall])
    /\ UNCHANGED << extensions, runs, hostInstalled, settingsFile, lastCall >>

\* the callback of the import's cp.exec: the install is counted and the
\* loop goes on to the next one
ImportInstallReturns(success) ==
    /\ ~SyncActive
    /\ importRun.pc = "awaiting"
    /\ importRun' =
          ImportLoop([importRun EXCEPT
              !.i = importRun.i + 1,
              !.installedCount = importRun.installedCount + (IF success THEN 1 ELSE 0),
              !.errorCount = importRun.errorCount + (IF success THEN 0 ELSE 1)])
    /\ UNCHANGED << extensions, runs, hostInstalled, settingsFile, lastCall >>

\* the user presses Cancel on the import's progress notification
ImportCancel ==
    /\ ~SyncActive
    /\ importRun.pc = "awaiting"
    /\ ~importRun.cancelled
    /\ importRun' = [importRun EXCEPT !.cancelled = TRUE]
    /\ UNCHANGED << extensions, runs, hostInstalled, settingsFile, lastCall >>

\* the steps of an importExtensions invocation over the files of a set
ImportSteps(files) ==
    \/ ImportCommand
    \/ ImportDismissed
    \/ \E data \in files : ImportFilePicked(data)
    \/ \E yes \in BOOLEAN : ImportConfirmed(yes)
    \/ \E success \in BOOLEAN : ImportInstallReturns(success)
    \/ ImportCancel

\* the steps of the installSelected invocations of the slots R
RunSteps(R) ==
    \/ \E r \in R : RunStart(r)
    \/ \E r \in R : SettingsPhase(r)
    \/ \E r \in R : LoopStep(r)
    \/ \E r \in R, success \in BOOLEAN : InstallReturns(r, success)
    \/ \E r \in R : Cancel(r)
    \/ \E r \in R : RunReturns(r)

SelectionSteps ==
    \/ SelectAllCommand
    \/ DeselectAllCommand
    \/ \E item \in 1..Len(extensions), checked \in BOOLEAN : CheckboxChanged(item, checked)

UserSteps ==
    \/ SelectionSteps
    \/ \E id \in ExtIds : HostChanges(id)

Init == InitWith(CoreFiles, ExtIds)

\* one installSelected invocation at a time; files are loaded and the
\* selection changes at any await of it
Next ==
    \/ \E data \in FileData(ExtIds, MaxLen, CoreSettings) : LoadFile(data)
    \/ UserSteps
    \/ RunSteps({1})

Spec == Init /\ [][Next]_vars

(* ---- one run at a time, the user acts only between two runs and ------ *)
(* ---- does nothing but cancel while one is in progress ---------------- *)
Quiescent == \A r \in Runs : runs[r].pc = "idle"

NextSeq ==
    \/ Quiescent /\ \E data \in FileData(DescriptorIds, MaxLenSeq, CoreSettings) : LoadFile(data)
    \/ Quiescent /\ UserSteps
    \/ RunSteps({1})

SpecSeq == Init /\ [][NextSeq]_vars

\* the same over the files of up to MaxLen descriptors
NextSeqShort ==
    \/ Quiescent /\ \E data \in FileData(DescriptorIds, MaxLen, CoreSettings) : LoadFile(data)
    \/ Quiescent /\ UserSteps
    \/ RunSteps({1})

SpecSeqShort == Init /\ [][NextSeqShort]_vars

(* ---- the settings merge: every settings.json and every payload ------- *)
AllSettings == {NoSettingsData} \cup {SomeSettings(m) : m \in SettingsMaps}
\* the settings.json files: missing, empty, or holding an object
AllFiles == AllSettings \cup {BlankSettings}

InitSettings == InitWith(AllFiles, {})

\* one file is loaded, into the empty collection, and installed any number
\* of times
NextSettings ==
    \/ /\ Quiescent
       /\ extensions = << >>
       /\ \E data \in FileData({"a"}, MaxLenSettings, AllSettings) : LoadFile(data)
    \/ RunSteps({1})

SpecSettings == InitSettings /\ [][NextSettings]_vars

(* ===================== properties of installSelected ================== *)
\* the runs whose final information message is on the screen
Finished == {r \in Runs : runs[r].pc = "summary"}

\* the j-th extension item of run r, and the number of its items with outcome o
ItemOf(r, j) == extensions[runs[r].extensionItems[j].ref]
CountOf(r, o) ==
    Cardinality({j \in 1..Len(runs[r].outcome) : runs[r].outcome[j] = o})

\* C3: the collection never holds more than one item with id "settings".
C3_AtMostOneSettings ==
    Cardinality({i \in 1..Len(extensions) : extensions[i].id = SettingsId}) <= 1

\* C5: when an uncancelled run ends, each of its extension items is
\* AlreadyInstalled if the host had it, Success if its install succeeded and
\* Failed with the error text if its install failed.
C5_FinalStatuses ==
    \A r \in Finished :
        ~runs[r].cancelled =>
            \A j \in 1..Len(runs[r].extensionItems) :
                /\ runs[r].outcome[j] = "already" => ItemOf(r, j).status = AlreadyInstalled
                /\ runs[r].outcome[j] = "ok" => ItemOf(r, j).status = Success
                /\ runs[r].outcome[j] = "fail" =>
                      /\ ItemOf(r, j).status = Failed
                      /\ ItemOf(r, j).errorMessage = ExecError

\* C6: the summary reports the installed, the failed and the already present
\* or skipped items, each count being that of the items with that outcome,
\* and marks a run that cancellation stopped.
C6_Summary ==
    \A r \in Finished :
        LET s == runs[r].summary
        IN  /\ s.shown
            /\ s.installed = CountOf(r, "ok")
            /\ "failed" \in DOMAIN s /\ s.failed = CountOf(r, "fail")
            /\ "skipped" \in DOMAIN s
                  /\ s.skipped = CountOf(r, "already") + CountOf(r, "none")
            /\ "cancelled" \in DOMAIN s
                  /\ s.cancelled = (runs[r].i < Len(runs[r].extensionItems))

\* C7: when cancellation stopped a run before its k-th item, the items
\* before the k-th are terminal, the k-th and later ones are still Pending
\* after a fresh load, and no install was invoked for them.
C7_Cancellation ==
    \A r \in Finished :
        LET n == Len(runs[r].extensionItems)
            k == runs[r].i + 1
        IN  (runs[r].cancelled /\ k <= n) =>
                /\ \A j \in 1..(k - 1) : ItemOf(r, j).status \in TerminalStatus
                /\ runs[r].fresh => \A j \in k..n : ItemOf(r, j).status = Pending
                /\ \A j \in k..n : runs[r].outcome[j] = "none"

\* C9, first half: an uncancelled run ends only after every item was
\* checked against the host and, if not installed, passed to the CLI
C9_RunContinues ==
    \A r \in Finished :
        ~runs[r].cancelled =>
            \A j \in 1..Len(runs[r].extensionItems) :
                runs[r].outcome[j] \in {"already", "ok", "fail"}

\* C9, second half: a failed install marks the failing item Failed with the
\* error text and changes no other item
C9_RecordedOnFailingItem ==
    \A r \in Runs :
        (/\ runs[r].pc = "awaiting"
         /\ runs'[r].pc = "loop"
         /\ runs'[r].outcome[runs[r].i + 1] = "fail") =>
            LET ref == runs[r].extensionItems[runs[r].i + 1].ref
            IN  /\ extensions'[ref].status = Failed
                /\ extensions'[ref].errorMessage = ExecError
                /\ \A p \in 1..Len(extensions) : p # ref => extensions'[p] = extensions[p]

\* C9: a failed install never ends the run, every later item is still
\* processed unless the run is cancelled, and the failure is recorded on
\* the failing item only.
C9_FailureIsolated == []C9_RunContinues /\ [][C9_RecordedOnFailingItem]_vars

\* C10: an item the host reports as installed when the loop reaches it is
\* not passed to the CLI and is marked AlreadyInstalled, not Installing.
C10_AlreadyInstalled ==
    [][\A r \in Runs :
        LET j == runs[r].i + 1
        IN  (/\ runs[r].pc = "loop"
             /\ j <= Len(runs[r].extensionItems)
             /\ ~runs[r].cancelled
             /\ runs[r].extensionItems[j].id \in hostInstalled) =>
                /\ runs'[r].outcome[j] = "already"
                /\ runs'[r].pc # "awaiting"
                /\ extensions'[runs[r].extensionItems[j].ref].status = AlreadyInstalled
      ]_vars

\* the settings.json as an object: {} when the file is missing
OnDisk(file) ==
    IF file = NoSettingsData \/ file = BlankSettings THEN EmptyMap ELSE file[1]

\* C8: when the settings phase writes, with C the current settings on disk
\* (none when the file is missing or cannot be read) and payload P, the
\* file afterwards holds the keys of C and of P, P's value for every key of
\* P and C's value for every key of C alone.
C8_SettingsMerge ==
    [][\A r \in Runs :
        (runs[r].pc = "settings" /\ runs'[r].settingsOutcome = "written") =>
            LET C == IF runs'[r].readFailed THEN EmptyMap ELSE OnDisk(settingsFile)
                P == extensions[runs[r].settingsItem].settingsData[1]
                W == OnDisk(settingsFile')
            IN  /\ settingsFile' # NoSettingsData
                /\ settingsFile' # BlankSettings
                /\ KeysOf(W) = KeysOf(C) \cup KeysOf(P)
                /\ Cardinality(KeysOf(W)) = Len(W)
                /\ \A k \in KeysOf(P) : ValueOf(W, k) = ValueOf(P, k)
                /\ \A k \in KeysOf(C) \ KeysOf(P) : ValueOf(W, k) = ValueOf(C, k)
      ]_vars

\* {k1: 1, k2: 1} on disk merged with the payload {k2: 2, k3: 2}
C8_Witness ==
    /\ runs[1].settingsOutcome = "written"
    /\ ~runs[1].readFailed
    /\ runs[1].currentSettings = << Property("k1", 1), Property("k2", 1) >>
    /\ extensions[1].settingsData =
          SomeSettings(<< Property("k3", 2), Property("k2", 2) >>)
    /\ settingsFile =
          SomeSettings(<< Property("k1", 1), Property("k2", 2), Property("k3", 2) >>)

(* ======================= properties of loadFile ======================= *)
\* the message loadFile ends with: the information message of the try block
\* or the error message of its catch
LoadFileMessage(data) ==
    IF ThrowsOnMember(data)
    THEN [kind |-> "error", text |-> "TypeError", loaded |-> 0, andSettings |-> FALSE]
    ELSE IF ~ExtensionsOf(data).isArray
    THEN [kind |-> "error", text |-> "Invalid extensions file format",
          loaded |-> 0, andSettings |-> FALSE]
    ELSE [kind |-> "information", text |-> "Loaded",
          loaded |-> Len(ExtensionsOf(data).list),
          andSettings |-> data.settings # NoSettingsData]

\* a parsed value that is neither a list nor an object with an extensions list
NeitherShape(data) ==
    \/ data.kind \in {"primitive", "null"}
    \/ data.kind = "object" /\ data.ext # "list"

\* C11: loading a value that is neither a list of descriptors nor an object
\* with an extensions list ends in an error message and leaves the
\* collection as it was.
C11_FormatError ==
    [][\A data \in FileData(DescriptorIds, MaxLenSeq, CoreSettings) :
        (NeitherShape(data) /\ LoadFile(data)) =>
            /\ LoadFileMessage(data).kind = "error"
            /\ extensions' = extensions
      ]_vars

\* does the loaded value carry a settings key with a non-empty mapping
HasNonEmptySettings(data) ==
    /\ data.kind = "object"
    /\ data.settings # NoSettingsData
    /\ data.settings[1] # EmptyMap

\* C12: a load that goes through leaves a settings item in the collection
\* exactly when the loaded object has a settings key with a non-empty mapping.
C12_SettingsItemIffNonEmpty ==
    [][\A data \in FileData({"a"}, MaxLenSettings, AllSettings) :
        (LoadFile(data) /\ ~LoadFileThrows(data)) =>
            ((\E i \in 1..Len(extensions') : extensions'[i].id = SettingsId)
                <=> HasNonEmptySettings(data))
      ]_vars

(* ============================ getCLIPath ============================== *)
\* longest directory listing of the bin directory
MaxListing == 3

\* a string is the sequence of its characters
Str_auto == << "a", "u", "t", "o" >>
Str_tunnel == << "t", "u", "n", "n", "e", "l" >>
Str_code == << "c", "o", "d", "e" >>
Str_cursor == << "c", "u", "r", "s", "o", "r" >>
Str_codium == << "c", "o", "d", "i", "u", "m" >>
Str_empty == << >>

\* String.prototype.toLowerCase over the capitals that occur
LowerOf == ("C" :> "c") @@ ("S" :> "s") @@ ("T" :> "t") @@ ("V" :> "v")
toLowerCase(s) ==
    [i \in 1..Len(s) |-> IF s[i] \in DOMAIN LowerOf THEN LowerOf[s[i]] ELSE s[i]]

\* String.prototype.startsWith and String.prototype.includes
startsWith(s, prefix) ==
    Len(s) >= Len(prefix) /\ SubSeq(s, 1, Len(prefix)) = prefix
includes(s, sub) ==
    \E k \in 0..(Len(s) - Len(sub)) : SubSeq(s, k + 1, k + Len(sub)) = sub

\* path.parse(f).name of a name without separators: f up to its last dot,
\* all of f when it has no dot or only a leading one
ParseName(f) ==
    LET dots == {i \in 1..Len(f) : f[i] = "."}
        lastDot == IF dots = {} THEN 0 ELSE CHOOSE i \in dots : \A j \in dots : j <= i
    IN  IF lastDot <= 1 THEN f ELSE SubSeq(f, 1, lastDot - 1)

\* path.join(appRoot, "bin") and `"${path.join(binDir, bestMatch)}"`
BinDir == << "/", "a", "p", "p", "/", "b", "i", "n" >>
QuotedPath(dir, name) == << "\"" >> \o dir \o << "/" >> \o name \o << "\"" >>

\* the bin directory: missing (existsSync false), unreadable (readdirSync
\* throws) or a list of names
MissingDir == [kind |-> "missing", files |-> << >>]
UnreadableDir == [kind |-> "unreadable", files |-> << >>]
ListedDir(files) == [kind |-> "listed", files |-> files]

\* config.get("cliCommand") || "auto"; an unset or empty setting is << >>
CliCommandOf(configured) == IF configured = Str_empty THEN Str_auto ELSE configured

\* getCLIPath that tries the known names before the host's name
getCLIPath_KnownNamesFirst(configured, binDir, appName) ==
    LET cliCommand == CliCommandOf(configured)
        files == binDir.files
        keep == [i \in 1..Len(files) |->
                    ~startsWith(files[i], << "." >>) /\ ~includes(files[i], Str_tunnel)]
        refs == FilterRefs(keep, 1, Len(files))
        candidates == [j \in 1..Len(refs) |-> files[refs[j]]]
        match == FindRef([j \in 1..Len(candidates) |->
                    includes(toLowerCase(appName), toLowerCase(ParseName(candidates[j])))])
        codeOrCursor == FindRef([j \in 1..Len(candidates) |->
                    toLowerCase(ParseName(candidates[j]))
                        \in {Str_code, Str_cursor, Str_codium}])
        bestMatch == IF codeOrCursor # 0 THEN candidates[codeOrCursor]
                     ELSE IF match # 0 THEN candidates[match]
                     ELSE candidates[1]
    IN  IF cliCommand # Str_auto \/ binDir.kind # "listed" THEN cliCommand
        ELSE IF Len(candidates) = 0 THEN cliCommand
        ELSE IF bestMatch # Str_empty THEN QuotedPath(BinDir, bestMatch)
        ELSE cliCommand

\* getCLIPath(): the command string the installs are run with
getCLIPath(configured, binDir, appName) ==
    LET cliCommand == CliCommandOf(configured)
        files == binDir.files
        keep == [i \in 1..Len(files) |->
                    ~startsWith(files[i], << "." >>) /\ ~includes(files[i], Str_tunnel)]
        refs == FilterRefs(keep, 1, Len(files))
        candidates == [j \in 1..Len(refs) |-> files[refs[j]]]
        match == FindRef([j \in 1..Len(candidates) |->
                    includes(toLowerCase(appName), toLowerCase(ParseName(candidates[j])))])
        codeOrCursor == FindRef([j \in 1..Len(candidates) |->
                    toLowerCase(ParseName(candidates[j]))
                        \in {Str_code, Str_cursor, Str_codium}])
        bestMatch == IF match # 0 THEN candidates[match]
                     ELSE IF codeOrCursor # 0 THEN candidates[codeOrCursor]
                     ELSE candidates[1]
    IN  IF cliCommand # Str_auto \/ binDir.kind # "listed" THEN cliCommand
        ELSE IF Len(candidates) = 0 THEN cliCommand
        ELSE IF bestMatch # Str_empty THEN QuotedPath(BinDir, bestMatch)
        ELSE cliCommand

\* the names readdirSync returns, the host's appName and the configured
\* cliCommand of this model
File_code == Str_code
File_codeCmd == << "c", "o", "d", "e", ".", "c", "m", "d" >>
File_Cursor == << "C", "u", "r", "s", "o", "r" >>
File_codium == Str_codium
File_codeTunnel == << "c", "o", "d", "e", "-", "t", "u", "n", "n", "e", "l" >>
File_hiddenCode == << ".", "c", "o", "d", "e" >>
File_zed == << "z", "e", "d" >>
File_s == << "s" >>
FileNames == {File_code, File_codeCmd, File_Cursor, File_codium, File_codeTunnel,
              File_hiddenCode, File_zed, File_s}
App_VSCode == << "V", "S", " ", "C", "o", "d", "e" >>
App_Cursor == << "C", "u", "r", "s", "o", "r" >>
App_VSCodium == << "V", "S", "C", "o", "d", "i", "u", "m" >>
AppNames == {App_VSCode, App_Cursor, App_VSCodium, Str_empty}
Configured == {Str_empty, Str_auto, File_codium}
BinDirs == {MissingDir, UnreadableDir}
               \cup {ListedDir(files) : files \in SeqsUpTo(FileNames, MaxListing)}

\* the harness picks a host and calls getCLIPath once
InitCLI ==
    /\ importRun = IdleImport
    /\ extensions = << >>
    /\ runs = [r \in Runs |-> IdleRun]
    /\ hostInstalled = {}
    /\ settingsFile = NoSettingsData
    /\ lastCall \in {[op |-> "none",
                      arg |-> [configured |-> c, binDir |-> d, appName |-> n],
                      result |-> Str_empty] :
                        c \in Configured, d \in BinDirs, n \in AppNames}

CallGetCLIPath ==
    /\ lastCall.op = "none"
    /\ lastCall' = [lastCall EXCEPT
            !.op = "getCLIPath",
            !.result = getCLIPath(lastCall.arg.configured, lastCall.arg.binDir,
                                  lastCall.arg.appName)]
    /\ UNCHANGED << extensions, progVars >>

NextCLI == CallGetCLIPath

SpecCLI == InitCLI /\ [][NextCLI]_vars

(* ======================= properties of getCLIPath ===================== *)
\* the least element of a non-empty set of positions
First(S) == CHOOSE i \in S : \A j \in S : i <= j

\* C13: with the setting on auto-detect and the directory listed, the
\* resolver returns the quoted path of the first non-hidden, non-"tunnel"
\* name whose lowercased base name is part of the lowercased host name, else
\* of the first such name whose lowercased base name is code, cursor or
\* codium, else of the first such name; with no such name, and with a
\* missing or unreadable directory, it returns the setting's value unchanged.
\* The name returned is never hidden and never contains "tunnel".
C13_Resolver ==
    (lastCall.op = "getCLIPath"
        /\ CliCommandOf(lastCall.arg.configured) = Str_auto) =>
        LET files == lastCall.arg.binDir.files
            host == toLowerCase(lastCall.arg.appName)
            Cand == {i \in 1..Len(files) :
                        files[i][1] # "." /\ ~includes(files[i], Str_tunnel)}
            ByHost == {i \in Cand : includes(host, toLowerCase(ParseName(files[i])))}
            Known == {i \in Cand : toLowerCase(ParseName(files[i]))
                                      \in {Str_code, Str_cursor, Str_codium}}
            pick == IF ByHost # {} THEN First(ByHost)
                    ELSE IF Known # {} THEN First(Known)
                    ELSE First(Cand)
        IN  IF lastCall.arg.binDir.kind # "listed" \/ Cand = {}
            THEN lastCall.result = Str_auto
            ELSE /\ lastCall.result = QuotedPath(BinDir, files[pick])
                 /\ files[pick][1] # "."
                 /\ ~includes(files[pick], Str_tunnel)

\* ["code-tunnel", "code", "Cursor"] on the host "Cursor": the tunnel binary
\* is dropped, code does not match the host, Cursor does
C13_Witness ==
    /\ lastCall.op = "getCLIPath"
    /\ lastCall.arg.configured = Str_empty
    /\ lastCall.arg.binDir = ListedDir(<< File_codeTunnel, File_code, File_Cursor >>)
    /\ lastCall.arg.appName = App_Cursor
    /\ lastCall.result = QuotedPath(BinDir, File_Cursor)

(* ========================= exportExtensions =========================== *)
\* longest list vscode.extensions.all holds
MaxExported == 3

\* ids of vscode.extensions.all: every id has the form publisher.name, so
\* none is the reserved id "settings"
BuiltinIds == {"vscode.git", "ms-vscode.js-debug"}
HostExtensionIds == ExtIds \cup BuiltinIds

\* the filter of the export: ids that start with "vscode.",
\* "ms-vscode.js-debug" or "ms-vscode.references-view" are left out
IsExported(id) == id \notin BuiltinIds

\* extensionList: the kept extensions of all, each mapped to its descriptor
ExtensionListOf(all) ==
    LET refs == FilterRefs([i \in 1..Len(all) |-> IsExported(all[i])], 1, Len(all))
    IN  [j \in 1..Len(refs) |-> [id |-> all[refs[j]], publisher |-> "publisher"]]

\* settingsData of the export after its try block: {} when settings.json
\* is missing or readFileSync throws (the catch reports it), else what
\* jsonc.parse gives: the object, or undefined for a file with no value
ExportSettingsOf(file, readable) ==
    IF file = NoSettingsData \/ ~readable THEN SomeSettings(EmptyMap)
    ELSE IF file = BlankSettings THEN NoSettingsData
    ELSE file

\* Object.keys(settingsData) of the check that follows the try block throws
\* on undefined; the handler's catch reports it and nothing is exported
ExportThrows(settingsData) == settingsData = NoSettingsData

\* the text JSON.stringify(exportData) as jsonc.parse reads it (meta
\* aside): an object with the extensions list and the settings member
ExportDataOf(extensionList, settingsData) ==
    [kind |-> "object", ext |-> "list", extensions |-> extensionList,
     settings |-> settingsData]

\* members of a descriptor that were not written (JS undefined)
NoId == "undefined"
NoPublisher == "undefined"

\* the characters of the strings the export writes into a descriptor
Chars(s) ==
    CASE s = "a" -> << "a" >>
      [] s = "b" -> << "b" >>
      [] s = "publisher" -> << "p", "u", "b", "l", "i", "s", "h", "e", "r" >>

\* the string of a sequence of characters
RECURSIVE Text(_)
Text(chars) == IF chars = << >> THEN "" ELSE chars[1] \o Text(Tail(chars))

\* what jsonc.parse reads of a string literal whose text ends before all of
\* its characters: the characters that are there, a proper prefix of s
CutStrings(s) == {Text(SubSeq(Chars(s), 1, n)) : n \in 0..(Len(Chars(s)) - 1)}

\* a descriptor whose text was cut, as jsonc.parse reads it: cut before its
\* id, within its id, behind its id, or within its publisher (a text cut
\* behind the last character of the publisher reads as the descriptor)
PartialDescriptors(descriptor) ==
    {[id |-> NoId, publisher |-> NoPublisher],
     [id |-> descriptor.id, publisher |-> NoPublisher]}
    \cup {[id |-> cut, publisher |-> NoPublisher] : cut \in CutStrings(descriptor.id)}
    \cup {[id |-> descriptor.id, publisher |-> cut] :
                cut \in CutStrings(descriptor.publisher)}

\* what a writeFileSync of the export that throws after its truncating open
\* (EFBIG, ENOSPC) leaves, as jsonc.parse reads the prefix of the text: no
\* value; an object cut before its extensions list; the first k descriptors,
\* the next one cut or not begun, and no settings member; or the whole list
\* and the first k properties of the settings
TruncatedExports(exportData) ==
    LET list == exportData.extensions
        settingsData == exportData.settings[1]
    IN  {[exportData EXCEPT !.kind = "blank", !.ext = "absent",
                            !.extensions = << >>, !.settings = NoSettingsData],
         [exportData EXCEPT !.ext = "absent",
                            !.extensions = << >>, !.settings = NoSettingsData]}
        \cup {[exportData EXCEPT !.extensions = SubSeq(list, 1, k),
                                 !.settings = NoSettingsData] : k \in 0..Len(list)}
        \cup UNION {{[exportData EXCEPT
                         !.extensions = Append(SubSeq(list, 1, k - 1), d),
                         !.settings = NoSettingsData] :
                            d \in PartialDescriptors(list[k])} : k \in 1..Len(list)}
        \cup {[exportData EXCEPT
                   !.settings = SomeSettings(SubSeq(settingsData, 1, k))] :
                      k \in 0..Len(settingsData)}

\* jsonc.parse of an export file, as loadFile reads it: undefined for a
\* text with no value (reading a member of it throws), else each descriptor
\* by its id and the settings member as it is
ParseExported(written) ==
    IF written.kind = "blank" THEN NullData
    ELSE ObjectData(written.ext,
                    [i \in 1..Len(written.extensions) |-> written.extensions[i].id],
                    written.settings)

\* the harness picks the host's extensions and settings.json, may load
\* another file first, exports, and loads the exported file; while the save
\* dialog is open an installSelected run may start and apply settings.
\* extensionList and settingsData are the handler's locals across its await
NoExport ==
    [op |-> "none", all |-> << >>, dialog |-> FALSE, extensionList |-> << >>,
     settingsData |-> NoSettingsData, error |-> FALSE, saved |-> FALSE,
     written |-> << >>]

ExportFiles ==
    {NoSettingsData, BlankSettings, SomeSettings(EmptyMap),
     SomeSettings(<< Property("k2", 2) >>)}

InitExport ==
    /\ importRun = IdleImport
    /\ extensions = << >>
    /\ runs = [r \in Runs |-> IdleRun]
    /\ settingsFile \in ExportFiles
    /\ \E all \in SeqsUpTo(HostExtensionIds, MaxExported) :
          /\ lastCall = [NoExport EXCEPT !.all = all]
          /\ hostInstalled = {all[i] : i \in 1..Len(all)}

\* exportExtensions up to its await: the extension list and the settings
\* are read, then the save dialog is shown
ExportCommand ==
    /\ ~SyncActive
    /\ lastCall.op \in {"none", "loadFile"}
    /\ \E readable \in BOOLEAN :
          LET settingsData == ExportSettingsOf(settingsFile, readable)
          IN  lastCall' = [lastCall EXCEPT
                  !.op = "exportExtensions",
                  !.extensionList = ExtensionListOf(lastCall.all),
                  !.settingsData = settingsData,
                  !.error = ExportThrows(settingsData),
                  !.dialog = ~ExportThrows(settingsData)]
    /\ UNCHANGED << extensions, progVars >>

\* the save dialog returns: with a uri the file is written from what was
\* read before the dialog. A writeFileSync that throws ends in the handler's
\* catch, with no file (the open failed) or a prefix of the text in it
ExportDialogReturns ==
    /\ ~SyncActive
    /\ lastCall.dialog
    /\ LET exportData == ExportDataOf(lastCall.extensionList, lastCall.settingsData)
       IN  \/ lastCall' = [lastCall EXCEPT !.dialog = FALSE]
           \/ lastCall' = [lastCall EXCEPT !.dialog = FALSE, !.saved = TRUE,
                                           !.written = << exportData >>]
           \/ \E left \in {<< >>} \cup {<< t >> : t \in TruncatedExports(exportData)} :
                 lastCall' = [lastCall EXCEPT !.dialog = FALSE, !.error = TRUE,
                                              !.written = left]
    /\ UNCHANGED << extensions, progVars >>

\* loadFile with some other file picked, before the export
LoadOtherFile ==
    /\ lastCall.op = "none"
    /\ \E st \in CoreSettings :
          extensions' = LoadFileResult(extensions, ObjectData("list", << "b" >>, st))
    /\ lastCall' = [lastCall EXCEPT !.op = "loadFile"]
    /\ UNCHANGED progVars

\* loadFile with the file at the export's path picked
LoadExportedFile ==
    /\ Quiescent
    /\ lastCall.op = "exportExtensions"
    /\ lastCall.written # << >>
    /\ extensions' = LoadFileResult(extensions, ParseExported(lastCall.written[1]))
    /\ lastCall' = [lastCall EXCEPT !.op = "loadExported"]
    /\ UNCHANGED progVars

NextExport ==
    \/ ExportCommand
    \/ ExportDialogReturns
    \/ LoadOtherFile
    \/ LoadExportedFile
    \/ lastCall.dialog /\ RunStart(1)
    \/ SettingsPhase(1)
    \/ LoopStep(1)
    \/ \E success \in BOOLEAN : InstallReturns(1, success)
    \/ Cancel(1)
    \/ RunReturns(1)

SpecExport == InitExport /\ [][NextExport]_vars

(* =================== properties of export and load =================== *)
\* the items of the collection other than the settings item carry, in
\* order, the ids of the exported list
C14_SameIds ==
    LET exported == lastCall.extensionList
        keep == [i \in 1..Len(extensions) |-> extensions[i].id # SettingsId]
    IN  /\ Len(exported) = Rank(keep, Len(extensions))
        /\ \A i \in 1..Len(extensions) :
              keep[i] => extensions[i].id = exported[Rank(keep, i)].id

\* the items of the collection other than the settings item are the first
\* ones of the exported list, in order; the last of them may carry a cut id
\* or none
C14_FirstIds ==
    LET exported == lastCall.extensionList
        keep == [i \in 1..Len(extensions) |-> extensions[i].id # SettingsId]
        count == Rank(keep, Len(extensions))
    IN  /\ count <= Len(exported)
        /\ \A i \in 1..Len(extensions) :
              keep[i] =>
                  LET j == Rank(keep, i)
                  IN  \/ extensions[i].id = exported[j].id
                      \/ /\ j = count
                         /\ extensions[i].id \in {NoId} \cup CutStrings(exported[j].id)

MaxLenReentrant == 2

\* nothing stops the commands from being invoked while a run awaits its
\* install: every slot of Runs may be in progress, and importExtensions
\* with its own installs beside them
NextReentrant ==
    \/ Quiescent /\ \E data \in FileData(ExtIds, MaxLenReentrant, {NoSettingsData}) :
                        LoadFile(data)
    \/ Quiescent /\ UserSteps
    \/ RunSteps(Runs)
    \/ ImportSteps(FileData(ExtIds, MaxLenReentrant, {NoSettingsData}))

SpecReentrant == Init /\ [][NextReentrant]_vars

(* ===================== properties of overlapping runs ================= *)
\* the installExtension calls whose cp.exec has not called back yet
InFlight == {r \in Runs : runs[r].pc = "awaiting"}

\* the cp.exec of importExtensions that has not called back yet
ImportInFlight == IF importRun.pc = "awaiting" THEN 1 ELSE 0

\* C15: at any moment at most one external install operation is in flight.
C15_OneInFlight == Cardinality(InFlight) + ImportInFlight <= 1

(* ================== properties of the statuses of a run =============== *)
\* the position of a status on Pending -> Installing -> terminal
StatusRank(status) ==
    IF status = Pending THEN 0 ELSE IF status = Installing THEN 1 ELSE 2

\* C16: during a run that started with every item Pending, a step that
\* changes the status of an item moves it forward on Pending -> Installing
\* -> {Success, Failed, AlreadyInstalled}: never back to Pending or
\* Installing, never from one terminal status to another.
C16_OneWayStatuses ==
    [][(\E r \in Runs : runs[r].pc # "idle" /\ runs[r].fresh) =>
        \A p \in 1..Len(extensions) :
            extensions'[p].status # extensions[p].status =>
                StatusRank(extensions'[p].status) > StatusRank(extensions[p].status)
      ]_vars

(* ==================== properties of the phases of a run =============== *)
\* the phase a run is in: Idle, SettingsPhase, ExtensionPhase, Complete
PhaseOf(run) ==
    IF run.pc = "idle" THEN 0
    ELSE IF run.pc = "settings" THEN 1
    ELSE IF run.pc \in {"loop", "awaiting"} THEN 2
    ELSE 3

\* the items of run r that were given to the host check or to the CLI
Handled(r) == {j \in 1..Len(runs[r].outcome) : runs[r].outcome[j] # "none"}

\* C17, in every state of a run: nothing was written or installed before the
\* settings phase, the items handled so far are the first ones of the
\* snapshot, the snapshot holds the selected non-settings items in
\* collection order, and what is at the CLI is never the settings item
C17_InOrder ==
    \A r \in Runs :
        LET run == runs[r]
            n == Len(run.extensionItems)
        IN  run.pc # "idle" =>
                /\ run.pc = "settings" => run.settingsOutcome = "none" /\ Handled(r) = {}
                /\ Handled(r) = 1..(IF run.pc = "awaiting" THEN run.i + 1 ELSE run.i)
                /\ run.pc = "summary" => (run.i = n \/ run.cancelled)
                /\ \A j \in 1..n :
                      /\ run.extensionItems[j].id # SettingsId
                      /\ extensions[run.extensionItems[j].ref].id = run.extensionItems[j].id
                /\ \A j, k \in 1..n :
                      j < k => run.extensionItems[j].ref < run.extensionItems[k].ref
                /\ run.settingsItem # 0 => extensions[run.settingsItem].id = SettingsId

\* C17, in every step: a run moves from a phase to the next one only, the
\* settings file is written in the settings phase only (a write that
\* fails may change it too), and the items are handled one at a time in the
\* order of the snapshot
C17_PhaseSteps ==
    /\ settingsFile' # settingsFile =>
          \E r \in Runs : runs[r].pc = "settings" /\ runs'[r].settingsOutcome # "none"
    /\ \A r \in Runs :
        /\ PhaseOf(runs'[r]) \in {PhaseOf(runs[r]), (PhaseOf(runs[r]) + 1) % 4}
        /\ runs'[r].settingsOutcome \notin {runs[r].settingsOutcome, "none"} =>
              (runs[r].pc = "settings" /\ Handled(r) = {})
        /\ (runs[r].pc # "idle" /\ runs'[r].pc # "idle") =>
              /\ runs'[r].extensionItems = runs[r].extensionItems
              /\ runs'[r].i \in {runs[r].i, runs[r].i + 1}

\* C17: each run goes Idle -> SettingsPhase -> ExtensionPhase -> Complete,
\* writes the settings file before the first install, never passes the
\* settings item to the CLI, and handles the selected extension items in
\* collection order.
C17_PhaseOrder == []C17_InOrder /\ [][C17_PhaseSteps]_vars

\* a run wrote the settings and then handled the two extension items
\* behind the settings item
C17_Witness ==
    /\ runs[1].pc = "summary"
    /\ runs[1].settingsOutcome = "written"
    /\ runs[1].settingsItem = 1
    /\ Len(runs[1].extensionItems) = 2
    /\ runs[1].extensionItems[1].ref = 2
    /\ runs[1].extensionItems[2].ref = 3
    /\ runs[1].outcome = << "fail", "ok" >>

(* =============== properties of cancellation in mid-flight ============= *)
\* C18: a cancellation requested while an install is in flight changes
\* nothing but the token; the install returns, its result is recorded on the
\* item it was for as Success or Failed, and the next pass through the loop
\* head ends the run without handling another item.
C18_CancelMidFlight ==
    [][\A r \in Runs :
        LET run == runs[r]
            j == run.i + 1
        IN  /\ (run.pc = "awaiting" /\ ~run.cancelled /\ runs'[r].cancelled) =>
                  /\ runs'[r] = [run EXCEPT !.cancelled = TRUE]
                  /\ extensions' = extensions
            /\ (run.pc = "awaiting" /\ run.cancelled /\ runs'[r].pc # "awaiting") =>
                  /\ runs'[r].pc = "loop"
                  /\ runs'[r].outcome[j] \in {"ok", "fail"}
                  /\ extensions'[run.extensionItems[j].ref].status =
                        (IF runs'[r].outcome[j] = "ok" THEN Success ELSE Failed)
            /\ (run.pc = "loop" /\ run.cancelled) =>
                  /\ runs'[r].pc = "summary"
                  /\ runs'[r].outcome = run.outcome
                  /\ extensions' = extensions
      ]_vars

(* ======================= properties of progress ======================= *)
\* the increments reported so far, in percent, times the number of extension
\* items (each item report adds 90 / total)
ReportedTimesTotal(run) ==
    run.settingsIncrement * Len(run.extensionItems) + run.itemReports * 90

\* the selected items of a run and those of them that are finished: the
\* settings item once its phase ran, the extension items found installed,
\* installed or failed
SelectedCount(run) ==
    Len(run.extensionItems) + (IF run.settingsItem # 0 THEN 1 ELSE 0)
FinishedCount(run) ==
    Cardinality({j \in 1..Len(run.outcome) : run.outcome[j] \in {"already", "ok", "fail"}})
        + (IF run.settingsOutcome # "none" THEN 1 ELSE 0)

\* C19: the progress reported during a run never decreases, never exceeds
\* 100 percent, and after each report equals the share of the selected
\* items that are finished.
C19_ProgressFraction ==
    [][\A r \in Runs :
        LET run == runs[r]
            after == runs'[r]
            total == Len(run.extensionItems)
        IN  (run.pc # "idle" /\ after.pc # "idle" /\ total > 0) =>
                /\ ReportedTimesTotal(after) >= ReportedTimesTotal(run)
                /\ ReportedTimesTotal(after) <= 100 * total
                /\ ReportedTimesTotal(after) # ReportedTimesTotal(run) =>
                      ReportedTimesTotal(after) * SelectedCount(after)
                          = 100 * FinishedCount(after) * total
      ]_vars

(* ================= properties of a failing settings phase ============= *)
\* what a run record holds apart from the record of its settings phase
LoopStateOf(run) ==
    << run.pc, run.settingsItem, run.extensionItems, run.i, run.installedCount,
       run.errorCount, run.cancelled, run.itemReports, run.outcome >>

\* the settings phase of run r failed in this step: anything of it threw,
\* the read that the inner try catches included
SettingsPhaseFailed(r) ==
    /\ runs[r].pc = "settings"
    /\ runs'[r].settingsOutcome = "failed" \/ runs'[r].readFailed

\* C20 as stated: whenever reading, merging or writing fails, the settings
\* item ends Failed with the error text
C20_AnyFailureRecorded ==
    [][\A r \in Runs :
        SettingsPhaseFailed(r) =>
            /\ extensions'[runs[r].settingsItem].status = Failed
            /\ extensions'[runs[r].settingsItem].errorMessage = WriteError
      ]_vars

\* a settings phase whose write threw leaves the settings item Failed with
\* the error text, every other item as it was, and the run at the head of
\* the loop with nothing handled
C20_WriteFailureStep ==
    \A r \in Runs :
        (runs[r].pc = "settings" /\ runs'[r].settingsOutcome = "failed") =>
            LET item == runs[r].settingsItem
            IN  /\ extensions'[item].status = Failed
                /\ extensions'[item].errorMessage = WriteError
                /\ \A p \in 1..Len(extensions) : p # item => extensions'[p] = extensions[p]
                /\ Len(extensions') = Len(extensions)
                /\ LoopStateOf(runs'[r]) = LoopStateOf([runs[r] EXCEPT !.pc = "loop"])

\* a read that threw does not fail the phase: the write decides, and the
\* item is Success once the payload is written over an empty mapping
C20_ReadFailureStep ==
    \A r \in Runs :
        (runs[r].pc = "settings" /\ runs'[r].readFailed
            /\ runs'[r].settingsOutcome = "written") =>
            LET item == runs[r].settingsItem
            IN  /\ extensions'[item].status = Success
                /\ settingsFile' = SomeSettings(extensions[item].settingsData[1])

\* after a failed settings phase the loop handles every extension item:
\* an uncancelled run ends only when each was checked or passed to the CLI
C20_LoopStillRuns ==
    \A r \in Finished :
        (runs[r].settingsOutcome = "failed" /\ ~runs[r].cancelled) =>
            /\ runs[r].i = Len(runs[r].extensionItems)
            /\ \A j \in 1..Len(runs[r].extensionItems) :
                  runs[r].outcome[j] \in {"already", "ok", "fail"}

\* C20, amended: if writing the merged settings fails, the settings item
\* ends Failed with the error text and the extension phase runs over every
\* selected extension item as after a successful phase; a failed read alone
\* is treated as no current settings and does not fail the phase.
C20_SettingsFailure ==
    /\ []C20_LoopStillRuns
    /\ [][C20_WriteFailureStep /\ C20_ReadFailureStep]_vars

\* a run whose settings write failed went on to install both its items
C20_Witness ==
    /\ runs[1].pc = "summary"
    /\ runs[1].settingsOutcome = "failed"
    /\ extensions[1].id = SettingsId
    /\ extensions[1].status = Failed
    /\ extensions[1].errorMessage = WriteError
    /\ runs[1].outcome = << "ok", "fail" >>

(* ================ properties of updateExtensionStatus ================= *)
\* C21: updateExtensionStatus(id, status, errorMessage) on a collection with
\* no item of that id changes nothing and fires nothing; otherwise it sets
\* status and errorMessage of exactly one item of that id, leaves every
\* other item and every selected flag as they were, and fires exactly one
\* notification, whose payload is that item.
C21_UpdateStatusFrame ==
    [][lastCall'.op = "updateExtensionStatus" =>
        LET id == lastCall'.arg[1]
            Matching == {p \in 1..Len(extensions) : extensions[p].id = id}
        IN  IF Matching = {}
            THEN extensions' = extensions /\ lastCall'.fired = << >>
            ELSE /\ Len(extensions') = Len(extensions)
                 /\ \E p \in Matching :
                       /\ extensions'[p] = [extensions[p] EXCEPT
                                               !.status = lastCall'.arg[2],
                                               !.errorMessage = lastCall'.arg[3]]
                       /\ \A q \in 1..Len(extensions) :
                             q # p => extensions'[q] = extensions[q]
                       /\ lastCall'.fired = << p >>
                 /\ \A q \in 1..Len(extensions) :
                       extensions'[q].selected = extensions[q].selected
      ]_vars

\* the update hit the second item of a collection in which two deselected
\* items share the id, and was notified with that item as payload
C21_Witness ==
    /\ lastCall.op = "updateExtensionStatus"
    /\ lastCall.arg = << "a", Failed, ExecError >>
    /\ lastCall.fired = << 2 >>
    /\ Len(extensions) = 3
    /\ extensions[1].id = SettingsId
    /\ extensions[2] = [id |-> "a", selected |-> FALSE, status |-> Failed,
                        errorMessage |-> ExecError, settingsData |-> NoSettingsData]
    /\ extensions[3].id = "a" /\ extensions[3].status = Pending
    /\ ~extensions[3].selected

(* ===================== properties of errorMessage ===================== *)
\* C22: in every state, an item has an errorMessage only if it is Failed.
C22_ErrorMessageOnlyIfFailed ==
    \A p \in 1..Len(extensions) :
        extensions[p].errorMessage # NoErrorMessage => extensions[p].status = Failed

\* a re-run after a failure: the second item still carries the message of
\* its failed install, the first is at the CLI again with none
C22_Witness ==
    /\ Len(extensions) = 2
    /\ runs[1].pc = "awaiting"
    /\ runs[1].extensionItems = << [ref |-> 1, id |-> "a"] >>
    /\ extensions[1].status = Installing
    /\ extensions[1].errorMessage = NoErrorMessage
    /\ extensions[2].id = "b"
    /\ extensions[2].status = Failed
    /\ extensions[2].errorMessage = ExecError

(* ============ properties of what happens during an await ============== *)
\* C23: between two steps of a run in progress nothing else changes the
\* collection: a step that leaves the run suspended on its install leaves
\* the collection as it was, so the run's items stay the ones it started with.
C23_OnlyTheRunMutates ==
    [][\A r \in Runs :
        (runs[r].pc = "awaiting" /\ runs'[r].pc = "awaiting") =>
            /\ extensions' = extensions
            /\ ~runs'[r].stale
      ]_vars

(* ---- the selection changes while a run is suspended on its install --- *)
\* longest descriptor list of a file in the model of the selection snapshot
MaxLenToggle == 2

\* files are loaded between two runs, the checkboxes and selectAll /
\* deselectAll act at any await of the run
NextToggle ==
    \/ Quiescent /\ \E data \in FileData(ExtIds, MaxLenToggle, CoreSettings) : LoadFile(data)
    \/ SelectionSteps
    \/ RunSteps({1})

SpecToggle == Init /\ [][NextToggle]_vars

(* ================ properties of the selection snapshot ================ *)
\* the selected items that are not the settings item, as positions
SelectedExtensionRefs(exts) ==
    {p \in 1..Len(exts) : exts[p].selected /\ exts[p].id # SettingsId}

\* C25, at the start of a run: its items are the selected non-settings
\* items of that moment, in collection order
C25_SnapshotAtStart ==
    \A r \in Runs :
        (runs[r].pc = "idle" /\ runs'[r].pc # "idle") =>
            LET items == runs'[r].extensionItems
                S == SelectedExtensionRefs(extensions)
            IN  /\ Len(items) = Cardinality(S)
                /\ {items[j].ref : j \in 1..Len(items)} = S
                /\ \A j \in 1..Len(items) :
                      /\ items[j].id = extensions[items[j].ref].id
                      /\ \A k \in 1..(j - 1) : items[k].ref < items[j].ref

\* C25, in every later step of the run: the items stay the same, whatever
\* the step does to the selected flags
C25_SnapshotKept ==
    \A r \in Runs :
        (runs[r].pc # "idle" /\ runs'[r].pc # "idle") =>
            /\ runs'[r].extensionItems = runs[r].extensionItems
            /\ runs'[r].settingsItem = runs[r].settingsItem
            /\ Len(runs'[r].outcome) = Len(runs[r].extensionItems)

\* C25, at the end: an uncancelled run has handled exactly its items
C25_HandledIsSnapshot ==
    \A r \in Finished :
        ~runs[r].cancelled => Handled(r) = 1..Len(runs[r].extensionItems)

\* C25: the items a run processes, and their order, are those selected when
\* it started; toggles, selectAll and deselectAll during its awaits neither
\* add nor remove any.
C25_SelectionSnapshot ==
    /\ []C25_HandledIsSnapshot
    /\ [][C25_SnapshotAtStart /\ C25_SnapshotKept]_vars

\* during the run its only item was deselected and the other item selected:
\* the first was installed all the same, the second was left alone
C25_Witness ==
    /\ runs[1].pc = "summary"
    /\ Len(extensions) = 2
    /\ runs[1].extensionItems = << [ref |-> 1, id |-> "a"] >>
    /\ runs[1].outcome = << "ok" >>
    /\ ~extensions[1].selected /\ extensions[1].status = Success
    /\ extensions[2].id = "b"
    /\ extensions[2].selected /\ extensions[2].status = Pending

(* ======================= properties of the summary ==================== *)
\* C24: the summary says the settings were applied exactly when the
\* settings phase ran and wrote the merged settings.
C24_SettingsApplied ==
    \A r \in Finished :
        runs[r].summary.settingsApplied = "Yes" <=> runs[r].settingsOutcome = "written"

(* =================== properties of what a run changes ================= *)
\* C26: a step of a run changes neither status nor errorMessage of an item
\* that is not selected, and no item's selected flag or id.
C26_UnselectedUntouched ==
    [][\A r \in Runs :
        runs[r].pc # "idle" =>
            /\ Len(extensions') = Len(extensions)
            /\ \A p \in 1..Len(extensions) :
                  /\ extensions'[p].selected = extensions[p].selected
                  /\ extensions'[p].id = extensions[p].id
                  /\ ~extensions[p].selected =>
                        /\ extensions'[p].status = extensions[p].status
                        /\ extensions'[p].errorMessage = extensions[p].errorMessage
      ]_vars

(* ======================= properties of termination ==================== *)
\* one run at a time over short files; the steps a run takes by itself and
\* the return of the install it awaits are taken whenever they stay enabled
SpecSeqFair ==
    /\ Init
    /\ [][NextSeqShort]_vars
    /\ WF_vars(SettingsPhase(1))
    /\ WF_vars(LoopStep(1))
    /\ WF_vars(\E success \in BOOLEAN : InstallReturns(1, success))

\* C27, the run ends: a run in progress reaches its summary unless it is
\* cancelled
C27_ReachesSummary ==
    \A r \in Runs :
        (runs[r].pc \in {"settings", "loop", "awaiting"})
            ~> (runs[r].pc = "summary" \/ runs[r].cancelled)

\* C27, at the summary of an uncancelled run none of its items is Pending
\* or Installing
C27_NoneLeftBehind ==
    \A r \in Finished :
        ~runs[r].cancelled =>
            \A j \in 1..Len(runs[r].extensionItems) :
                ItemOf(r, j).status \notin {Pending, Installing}

\* C27: without cancellation and with every install returning, a run
\* reaches its summary, and then none of its extension items is left
\* Pending or Installing.
C27_Termination == C27_ReachesSummary /\ []C27_NoneLeftBehind

====
